---- MODULE Spec2Model ----
(***************************************************************************)
(* The FoldSeek batch driver (foldseek_batch.py and its packaged copy      *)
(* scripts/phase2/p2_05_foldseek_batch.py): one process walks the sorted   *)
(* list of .pdb files; for each it checks the aln.tsv marker, submits,     *)
(* polls the ticket, downloads and unpacks the archive, and appends the    *)
(* path to foldseek_failures.txt when anything raises.                     *)
(*                                                                         *)
(* A step of the model is one blocking step of the script: the marker      *)
(* check, the POST, one iteration of the polling loop, the download with   *)
(* the extraction, the pacing sleep, the except block.  The remote service *)
(* and the archive it returns are the inputs, chosen with \E.              *)
(***************************************************************************)
EXTENDS Integers, Sequences, FiniteSets, TLC

-----------------------------------------------------------------------------
(* Bounds of the model.                                                    *)

\* number of .pdb files in the query directory of a batch behaviour
NumArtifacts == 3

\* number of .pdb files of a behaviour in which the script is started again
RerunArtifacts == 2

\* number of times the script is started on the same directories
MaxRuns == 2

-----------------------------------------------------------------------------
(* Program constants.                                                      *)

MAX_WAIT == 180

NO_PROGRESS_LIMIT == 5

P2_MAX_WAIT == 600

P2_NO_PROGRESS_LIMIT == 12

\* time.sleep(5) at the head of every polling iteration
POLL_INTERVAL == 5

\* a deadline shorter than the time the stall limit takes
ConfigsShortDeadline ==
  { [max_wait |-> 4 * POLL_INTERVAL, no_progress_limit |-> NO_PROGRESS_LIMIT] }

\* the two shipped scripts differ only in these two settings
Configs ==
  { [max_wait |-> MAX_WAIT, no_progress_limit |-> NO_PROGRESS_LIMIT],
    [max_wait |-> P2_MAX_WAIT, no_progress_limit |-> P2_NO_PROGRESS_LIMIT] }

-----------------------------------------------------------------------------
(* Values.                                                                 *)

\* Python's None, and "no exception pending"
None == "<None>"

NoExc == "<none>"

\* a name that holds a path or a URL and is not bound yet
Unbound == <<>>

\* A file name is the sequence of its pieces: "A.pdb" is <<"A", ".pdb">>.
Stems == <<"A", "B", "C", "D", "E", "F">>

PdbFile(i) == <<Stems[i], ".pdb">>

\* position of a piece in character order ("." sorts before the letters)
PieceRank(t) ==
  IF t = ".pdb" THEN 0
  ELSE CHOOSE i \in 1..Len(Stems) : Stems[i] = t

\* Python's < on str, piece by piece
RECURSIVE StrLess(_, _)
StrLess(a, b) ==
  IF b = <<>> THEN FALSE
  ELSE IF a = <<>> THEN TRUE
  ELSE IF PieceRank(Head(a)) # PieceRank(Head(b))
       THEN PieceRank(Head(a)) < PieceRank(Head(b))
       ELSE StrLess(Tail(a), Tail(b))

\* glob.glob(...) used as it comes, here in descending order
RECURSIVE Unsorted(_)
Unsorted(S) ==
  IF S = {} THEN <<>>
  ELSE LET m == CHOOSE x \in S : \A y \in S \ {x} : StrLess(y, x)
       IN  <<m>> \o Unsorted(S \ {m})

\* sorted(glob.glob(os.path.join(QUERY_DIR, "*.pdb")))
RECURSIVE Sorted(_)
Sorted(S) ==
  IF S = {} THEN <<>>
  ELSE LET m == CHOOSE x \in S : \A y \in S \ {x} : StrLess(x, y)
       IN  <<m>> \o Sorted(S \ {m})

\* glob's pattern "*.pdb": the name ends in .pdb
EndsWithPdb(p) == Len(p) >= 1 /\ p[Len(p)] = ".pdb"

\* os.path.basename(pdb_path).replace(".pdb", ""): every ".pdb" is removed
Uniprot(p) == SelectSeq(p, LAMBDA t : t # ".pdb")

\* the files an archive can hold: the marker and a hit table
Files == {"aln.tsv", "alis.m8"}

Marker == "aln.tsv"

\* a result directory: missing, or present with some files
AbsentDir == [exists |-> FALSE, files |-> {}]

DoneDir == [exists |-> TRUE, files |-> Files]

\* os.path.exists(os.path.join(result_folder, "aln.tsv"))
MarkerExists(dir) == dir.exists /\ Marker \in dir.files

\* The body of the download: the members of the tar in order, and the
\* member at which reading it fails (0: the archive is sound; 1: it cannot
\* even be opened, or its first member is broken).
MemberLists == { <<"aln.tsv", "alis.m8">>, <<"alis.m8">> }

Archives ==
  UNION { { [members |-> m, bad |-> b] : b \in 0..Len(m) } : m \in MemberLists }

\* the members written before the broken one is reached
SoundPrefix(a) == IF a.bad = 0 THEN Len(a.members) ELSE a.bad - 1

\* tarfile.open / tar.extractall raise once they reach the broken member
ExtractRaises(a) == a.bad # 0

\* os.makedirs(out_dir, exist_ok=True) and tar.extractall(out_dir)
ExtractInto(dir, a) ==
  [exists |-> TRUE,
   files  |-> dir.files \cup { a.members[i] : i \in 1..SoundPrefix(a) }]

-----------------------------------------------------------------------------
(* JSON objects and Python's truth.                                        *)

\* dict.get(key)
Get(json, key) == IF key \in DOMAIN json THEN json[key] ELSE None

\* the test written "ticket is None"
TruthyNotNone(v) == v # None

\* bool(v) for None and for strings
Truthy(v) == v # None /\ v # ""

\* a or b
PyOr(a, b) == IF Truthy(a) THEN a ELSE b

\* res_json.get("id") or res_json.get("ticket")
TicketOfIdFirst(res_json) == PyOr(Get(res_json, "id"), Get(res_json, "ticket"))

\* res_json.get("ticket") or res_json.get("id")
TicketOf(res_json) == PyOr(Get(res_json, "ticket"), Get(res_json, "id"))

\* the handles the service hands out: one new string per accepted job
Handle(n) == ToString(n)

\* what POST /api/ticket may answer for the n-th accepted job
SubmitResponses(n) ==
  { [ok |-> FALSE, json |-> [error |-> "x"]],
    [ok |-> TRUE,  json |-> [ticket |-> Handle(n), status |-> "PENDING"]],
    [ok |-> TRUE,  json |-> [id |-> Handle(n), status |-> "PENDING"]],
    [ok |-> TRUE,  json |-> [ticket |-> "", id |-> Handle(n)]],
    [ok |-> TRUE,  json |-> [ticket |-> Handle(n), id |-> "job"]],
    [ok |-> TRUE,  json |-> [status |-> "PENDING"]],
    [ok |-> TRUE,  json |-> [ticket |-> "", id |-> ""]] }

\* what GET /api/ticket/<ticket> may answer when the service reports the
\* statuses S
StatusResponses(S) ==
  { [ok |-> FALSE, json |-> [error |-> "x"]],
    [ok |-> TRUE,  json |-> [error |-> "x"]] }
  \cup { [ok |-> TRUE, json |-> [status |-> s]] : s \in S }

\* what GET /api/result/download/<ticket> may answer
DownloadResponses ==
  { [ok |-> FALSE, content |-> None] }
  \cup { [ok |-> TRUE, content |-> a] : a \in Archives }

Terminal == {"COMPLETE", "ERROR"}

\* the statuses of a polling behaviour, and of a batch behaviour
PollStatuses == {"", "PENDING", "RUNNING", "COMPLETE", "ERROR"}

BatchStatuses == {"RUNNING", "COMPLETE", "ERROR"}

\* a request is answered at once, or only after the whole deadline
Latencies(mw) == {0, mw}

-----------------------------------------------------------------------------
(* Exceptions.                                                             *)

HTTPError == "HTTPError"

ValueError == "ValueError: No ticket returned"

KeyError == "KeyError: status"

ServerError == "RuntimeError: Server returned error"

TimeoutError == "TimeoutError: Timeout while waiting"

NoProgress == "RuntimeError: No progress"

TarError == "tarfile.ReadError"

Exceptions ==
  {HTTPError, ValueError, KeyError, ServerError, TimeoutError, NoProgress,
   TarError}

\* the handler written as "except requests.HTTPError"
CaughtHTTPOnly(e) == e = HTTPError

\* "except Exception" catches every exception the body can raise
Caught(e) == e \in Exceptions

-----------------------------------------------------------------------------
(* One iteration of the loop of poll_until_ready, after the sleep and the  *)
(* GET: what the if/elif chain does with the status just read.  The result *)
(* says whether the function returns, raises or loops, and gives the new   *)
(* last_status and same_count.                                             *)

\* the stall test written "same_count > limit"
PollStepLateStall(st, el, last, cnt, mw, lim) ==
  IF st = "COMPLETE" THEN
    [kind |-> "return", exc |-> NoExc, last |-> last, cnt |-> cnt]
  ELSE IF st = "ERROR" THEN
    [kind |-> "raise", exc |-> ServerError, last |-> last, cnt |-> cnt]
  ELSE IF el > mw THEN
    [kind |-> "raise", exc |-> TimeoutError, last |-> last, cnt |-> cnt]
  ELSE IF st = last THEN
    IF cnt + 1 > lim
    THEN [kind |-> "raise", exc |-> NoProgress, last |-> last, cnt |-> cnt + 1]
    ELSE [kind |-> "loop", exc |-> NoExc, last |-> last, cnt |-> cnt + 1]
  ELSE
    [kind |-> "loop", exc |-> NoExc, last |-> st, cnt |-> 0]

\* the counter bumped on every non-terminal poll, never reset
PollStepCountsAll(st, el, last, cnt, mw, lim) ==
  IF st = "COMPLETE" THEN
    [kind |-> "return", exc |-> NoExc, last |-> last, cnt |-> cnt]
  ELSE IF st = "ERROR" THEN
    [kind |-> "raise", exc |-> ServerError, last |-> last, cnt |-> cnt]
  ELSE IF el > mw THEN
    [kind |-> "raise", exc |-> TimeoutError, last |-> last, cnt |-> cnt]
  ELSE IF cnt + 1 >= lim
    THEN [kind |-> "raise", exc |-> NoProgress, last |-> st, cnt |-> cnt + 1]
    ELSE [kind |-> "loop", exc |-> NoExc, last |-> st, cnt |-> cnt + 1]

\* the stall test placed before the deadline test
PollStepStallFirst(st, el, last, cnt, mw, lim) ==
  IF st = "COMPLETE" THEN
    [kind |-> "return", exc |-> NoExc, last |-> last, cnt |-> cnt]
  ELSE IF st = "ERROR" THEN
    [kind |-> "raise", exc |-> ServerError, last |-> last, cnt |-> cnt]
  ELSE IF st = last THEN
    IF cnt + 1 >= lim
    THEN [kind |-> "raise", exc |-> NoProgress, last |-> last, cnt |-> cnt + 1]
    ELSE IF el > mw
    THEN [kind |-> "raise", exc |-> TimeoutError, last |-> last, cnt |-> cnt + 1]
    ELSE [kind |-> "loop", exc |-> NoExc, last |-> last, cnt |-> cnt + 1]
  ELSE IF el > mw THEN
    [kind |-> "raise", exc |-> TimeoutError, last |-> last, cnt |-> cnt]
  ELSE
    [kind |-> "loop", exc |-> NoExc, last |-> st, cnt |-> 0]

\* the success test written against "COMPLETED"
PollStepMissesComplete(st, el, last, cnt, mw, lim) ==
  IF st = "COMPLETED" THEN
    [kind |-> "return", exc |-> NoExc, last |-> last, cnt |-> cnt]
  ELSE IF st = "ERROR" THEN
    [kind |-> "raise", exc |-> ServerError, last |-> last, cnt |-> cnt]
  ELSE IF el > mw THEN
    [kind |-> "raise", exc |-> TimeoutError, last |-> last, cnt |-> cnt]
  ELSE IF st = last THEN
    IF cnt + 1 >= lim
    THEN [kind |-> "raise", exc |-> NoProgress, last |-> last, cnt |-> cnt + 1]
    ELSE [kind |-> "loop", exc |-> NoExc, last |-> last, cnt |-> cnt + 1]
  ELSE
    [kind |-> "loop", exc |-> NoExc, last |-> st, cnt |-> 0]

\* the success test written "status != ERROR"
PollStepReturnsUnlessError(st, el, last, cnt, mw, lim) ==
  IF st = "ERROR" THEN
    [kind |-> "raise", exc |-> ServerError, last |-> last, cnt |-> cnt]
  ELSE
    [kind |-> "return", exc |-> NoExc, last |-> last, cnt |-> cnt]

\* the deadline test that leaves the latest sleep out of the elapsed time
PollStepLateDeadline(st, el, last, cnt, mw, lim) ==
  IF st = "COMPLETE" THEN
    [kind |-> "return", exc |-> NoExc, last |-> last, cnt |-> cnt]
  ELSE IF st = "ERROR" THEN
    [kind |-> "raise", exc |-> ServerError, last |-> last, cnt |-> cnt]
  ELSE IF el - POLL_INTERVAL > mw THEN
    [kind |-> "raise", exc |-> TimeoutError, last |-> last, cnt |-> cnt]
  ELSE IF st = last THEN
    IF cnt + 1 >= lim
    THEN [kind |-> "raise", exc |-> NoProgress, last |-> last, cnt |-> cnt + 1]
    ELSE [kind |-> "loop", exc |-> NoExc, last |-> last, cnt |-> cnt + 1]
  ELSE
    [kind |-> "loop", exc |-> NoExc, last |-> st, cnt |-> 0]

\* the else branch without "same_count = 0"
PollStepKeepsCount(st, el, last, cnt, mw, lim) ==
  IF st = "COMPLETE" THEN
    [kind |-> "return", exc |-> NoExc, last |-> last, cnt |-> cnt]
  ELSE IF st = "ERROR" THEN
    [kind |-> "raise", exc |-> ServerError, last |-> last, cnt |-> cnt]
  ELSE IF el > mw THEN
    [kind |-> "raise", exc |-> TimeoutError, last |-> last, cnt |-> cnt]
  ELSE IF st = last THEN
    IF cnt + 1 >= lim
    THEN [kind |-> "raise", exc |-> NoProgress, last |-> last, cnt |-> cnt + 1]
    ELSE [kind |-> "loop", exc |-> NoExc, last |-> last, cnt |-> cnt + 1]
  ELSE
    [kind |-> "loop", exc |-> NoExc, last |-> st, cnt |-> cnt]

\* the else branch with "same_count = 1": the recording poll counts
PollStepCountsFirst(st, el, last, cnt, mw, lim) ==
  IF st = "COMPLETE" THEN
    [kind |-> "return", exc |-> NoExc, last |-> last, cnt |-> cnt]
  ELSE IF st = "ERROR" THEN
    [kind |-> "raise", exc |-> ServerError, last |-> last, cnt |-> cnt]
  ELSE IF el > mw THEN
    [kind |-> "raise", exc |-> TimeoutError, last |-> last, cnt |-> cnt]
  ELSE IF st = last THEN
    IF cnt + 1 >= lim
    THEN [kind |-> "raise", exc |-> NoProgress, last |-> last, cnt |-> cnt + 1]
    ELSE [kind |-> "loop", exc |-> NoExc, last |-> last, cnt |-> cnt + 1]
  ELSE
    [kind |-> "loop", exc |-> NoExc, last |-> st, cnt |-> 1]

\* the deadline test placed at the head of the chain
PollStepDeadlineFirst(st, el, last, cnt, mw, lim) ==
  IF el > mw THEN
    [kind |-> "raise", exc |-> TimeoutError, last |-> last, cnt |-> cnt]
  ELSE IF st = "COMPLETE" THEN
    [kind |-> "return", exc |-> NoExc, last |-> last, cnt |-> cnt]
  ELSE IF st = "ERROR" THEN
    [kind |-> "raise", exc |-> ServerError, last |-> last, cnt |-> cnt]
  ELSE IF st = last THEN
    IF cnt + 1 >= lim
    THEN [kind |-> "raise", exc |-> NoProgress, last |-> last, cnt |-> cnt + 1]
    ELSE [kind |-> "loop", exc |-> NoExc, last |-> last, cnt |-> cnt + 1]
  ELSE
    [kind |-> "loop", exc |-> NoExc, last |-> st, cnt |-> 0]

PollStep(st, el, last, cnt, mw, lim) ==
  IF st = "COMPLETE" THEN
    [kind |-> "return", exc |-> NoExc, last |-> last, cnt |-> cnt]
  ELSE IF st = "ERROR" THEN
    [kind |-> "raise", exc |-> ServerError, last |-> last, cnt |-> cnt]
  ELSE IF el > mw THEN
    [kind |-> "raise", exc |-> TimeoutError, last |-> last, cnt |-> cnt]
  ELSE IF st = last THEN
    IF cnt + 1 >= lim
    THEN [kind |-> "raise", exc |-> NoProgress, last |-> last, cnt |-> cnt + 1]
    ELSE [kind |-> "loop", exc |-> NoExc, last |-> last, cnt |-> cnt + 1]
  ELSE
    [kind |-> "loop", exc |-> NoExc, last |-> st, cnt |-> 0]

\* f"https://search.foldseek.com/api/ticket/{ticket}"
StatusUrl(t) == <<"https://search.foldseek.com/api/ticket/", t>>

\* f"https://search.foldseek.com/api/result/download/{ticket}"
DownloadUrl(t) == <<"https://search.foldseek.com/api/result/download/", t>>

-----------------------------------------------------------------------------
(* State.                                                                  *)

VARIABLES
  max_wait,           \* the script's deadline for one polling session
  no_progress_limit,  \* the script's stall limit
  reportable,         \* the statuses the service reports in this behaviour
  query_dir,          \* the .pdb files of the query directory
  out,                \* the result directory of every unit id
  out0,               \* the result directories when this run began
  failures,           \* the lines of foldseek_failures.txt
  run,                \* how many times the script has been started
  all_pdbs,           \* the sorted list the main loop walks
  idx,                \* position of the main loop in all_pdbs
  pc,                 \* where the process stands
  ticket,             \* process_structure's ticket
  result_url,         \* process_structure's result_url
  exc,                \* the exception in flight
  elapsed,            \* time.time() - start in poll_until_ready
  last_status,        \* poll_until_ready's last_status
  same_count,         \* poll_until_ready's same_count
  status,             \* the status read by the latest poll
  issued,             \* jobs the service has accepted so far
  wire,               \* the HTTP request made by the latest step
  polls,              \* status queries made for the current ticket
  change,             \* when the status first differed from the poll before
  submitted,          \* the paths POSTed in this run, in order
  failed,             \* the paths whose processing raised in this run
  logStart,           \* length of the failure log when this run began
  paced,              \* the pacing sleep ran since the latest POST
  outcome,            \* what became of each path in this run
  lost,               \* the tickets whose polling was cut by a kill
  crashed,            \* the path being polled when the process was killed
  streak,             \* the latest polls in a row that read the same status
  reply               \* the JSON body answered to the latest step's request

cfgVars == <<max_wait, no_progress_limit, reportable, query_dir, out0>>

pollVars ==
  <<elapsed, last_status, same_count, status, polls, change, streak>>

crashVars == <<lost, crashed>>

vars ==
  <<max_wait, no_progress_limit, reportable, query_dir, out, out0, failures,
    run,
    all_pdbs, idx, pc, ticket, result_url, exc, elapsed, last_status,
    same_count, status, issued, wire, polls, change, submitted, failed,
    logStart, paced, outcome, lost, crashed, streak, reply>>

\* the path the main loop is at
pdb_path == all_pdbs[idx]

\* os.path.join(OUT_DIR, uniprot), as the key of the directory
result_folder == Uniprot(pdb_path)

NoRequest == [op |-> "none", arg |-> Unbound]

\* the step read no JSON body
NoReply == [nobody |-> ""]

Units(dir) == { Uniprot(p) : p \in dir }

\* the state of a freshly started process on the directories as they are
StartRun(dir) ==
  /\ all_pdbs = Sorted({ p \in dir : EndsWithPdb(p) })
  /\ idx = 1
  /\ pc = "loop"
  /\ ticket = None
  /\ result_url = Unbound
  /\ exc = NoExc
  /\ elapsed = 0
  /\ last_status = ""
  /\ same_count = 0
  /\ status = None
  /\ wire = NoRequest
  /\ reply = NoReply
  /\ streak = 0
  /\ polls = 0
  /\ change = "none"
  /\ submitted = <<>>
  /\ failed = <<>>
  /\ paced = FALSE
  /\ outcome = [p \in dir |-> "pending"]

\* the script `cfgs` is started for the first time, on n files whose result
\* directories are among `dirs`, against a service reporting `statuses`
InitWith(cfgs, statuses, n, dirs) ==
  /\ \E c \in cfgs :
       /\ max_wait = c.max_wait
       /\ no_progress_limit = c.no_progress_limit
  /\ reportable = statuses
  /\ query_dir = { PdbFile(i) : i \in 1..n }
  /\ out \in [Units(query_dir) -> dirs]
  /\ out0 = out
  /\ failures = <<>>
  /\ logStart = 0
  /\ run = 1
  /\ issued = 0
  /\ lost = {}
  /\ crashed = Unbound
  /\ StartRun(query_dir)

\* A batch: NumArtifacts files, each result directory either missing or
\* complete from an earlier use, an empty failure log.
Init == InitWith(Configs, BatchStatuses, NumArtifacts, {AbsentDir, DoneDir})

\* A batch that is run again and again, from empty result directories.
InitRerun ==
  InitWith({[max_wait |-> MAX_WAIT, no_progress_limit |-> NO_PROGRESS_LIMIT]},
           BatchStatuses, RerunArtifacts, {AbsentDir})

\* One file, and a service that reports every status.
InitPoll == InitWith(Configs, PollStatuses, 1, {AbsentDir, DoneDir})

\* A query directory with the files A.pdb, A.pdb.pdb, B.pdb and a file C
\* that is no .pdb file.
Names ==
  { <<"A", ".pdb">>, <<"A", ".pdb", ".pdb">>, <<"B", ".pdb">>, <<"C">> }

InitNames ==
  /\ max_wait = MAX_WAIT
  /\ no_progress_limit = NO_PROGRESS_LIMIT
  /\ reportable = BatchStatuses
  /\ query_dir = Names
  /\ out \in [Units(query_dir) -> {AbsentDir, DoneDir}]
  /\ out0 = out
  /\ failures = <<>>
  /\ logStart = 0
  /\ run = 1
  /\ issued = 0
  /\ lost = {}
  /\ crashed = Unbound
  /\ StartRun(query_dir)

-----------------------------------------------------------------------------
(* Steps.                                                                  *)

\* submit_foldseek and the pollers without raise_for_status: an HTTP error
\* goes unnoticed and the body carries on
RaisingSwallowsHTTP(e) ==
  /\ exc' = e
  /\ pc' = IF e = HTTPError THEN "poll" ELSE "except"
  /\ failed' = Append(failed, pdb_path)
  /\ outcome' = [outcome EXCEPT ![pdb_path] = "failed"]

\* a status query that failed is tried again: the loop of poll_until_ready
\* with its own "except: continue" around the GET
RaisingRetriesQuery(e) ==
  IF pc = "poll" /\ e \in {HTTPError, KeyError}
  THEN /\ exc' = e
       /\ UNCHANGED <<pc, failed, outcome>>
  ELSE /\ exc' = e
       /\ pc' = "except"
       /\ failed' = Append(failed, pdb_path)
       /\ outcome' = [outcome EXCEPT ![pdb_path] = "failed"]

\* an exception leaves the try body: the except block takes it, or the
\* process dies with a traceback
Raising(e) ==
  /\ exc' = e
  /\ pc' = IF Caught(e) THEN "except" ELSE "aborted"
  /\ failed' = Append(failed, pdb_path)
  /\ outcome' = [outcome EXCEPT ![pdb_path] = "failed"]

\* the locals of poll_until_ready are gone once it has returned or raised
\* and the caller has moved on
PollFrameLeft ==
  /\ elapsed' = 0
  /\ last_status' = ""
  /\ same_count' = 0
  /\ status' = None
  /\ polls' = 0
  /\ change' = "none"
  /\ streak' = 0

\* the locals of process_structure go out of scope
FrameLeft ==
  /\ ticket' = None
  /\ result_url' = Unbound
  /\ PollFrameLeft

\* process_structure without its marker check
ReturnsEarlyNoMarker(p, dirs) == ~EndsWithPdb(p)

\* the two early returns of process_structure
ReturnsEarly(p, dirs) == ~EndsWithPdb(p) \/ MarkerExists(dirs[Uniprot(p)])

\* process_structure returns at once: the marker is there
Skip ==
  /\ pc = "loop"
  /\ idx <= Len(all_pdbs)
  /\ ReturnsEarly(pdb_path, out)
  /\ idx' = idx + 1
  /\ outcome' = [outcome EXCEPT ![pdb_path] = "skipped"]
  /\ wire' = NoRequest
  /\ reply' = NoReply
  /\ UNCHANGED <<cfgVars, crashVars, pollVars, out, failures, run, all_pdbs, pc, ticket,
                 result_url, exc, issued, submitted, failed, logStart, paced>>

\* process_structure enters its try block
Enter ==
  /\ pc = "loop"
  /\ idx <= Len(all_pdbs)
  /\ ~ReturnsEarly(pdb_path, out)
  /\ pc' = "submit"
  /\ wire' = NoRequest
  /\ reply' = NoReply
  /\ UNCHANGED <<cfgVars, crashVars, pollVars, out, failures, run, all_pdbs, idx, ticket,
                 result_url, exc, issued, submitted, failed, logStart, paced,
                 outcome>>

\* submit_foldseek, the ticket lookup, and the first lines of
\* poll_until_ready
Submit ==
  /\ pc = "submit"
  /\ \E r \in SubmitResponses(issued + 1) :
       /\ wire' = [op |-> "POST", arg |-> pdb_path]
       /\ reply' = r.json
       /\ submitted' = Append(submitted, pdb_path)
       /\ paced' = FALSE
       /\ issued' = IF r.ok THEN issued + 1 ELSE issued
       /\ IF ~r.ok THEN
            /\ Raising(HTTPError)
            /\ UNCHANGED ticket
          ELSE IF ~Truthy(TicketOf(r.json)) THEN
            /\ Raising(ValueError)
            /\ ticket' = TicketOf(r.json)
          ELSE
            /\ ticket' = TicketOf(r.json)
            /\ pc' = "poll"
            /\ UNCHANGED <<exc, failed, outcome>>
  /\ UNCHANGED <<cfgVars, crashVars, pollVars, out, failures, run, all_pdbs, idx,
                 result_url, logStart>>

\* how the ghost "change" moves when the n-th poll reads st after prev
Changed(ch, n, prev, st, lim) ==
  IF ch = "none" /\ n >= 2 /\ st # prev
  THEN IF n <= lim - 1 THEN "early" ELSE "late"
  ELSE ch

\* the loop with time.sleep(5) at the end of its body: the first query
\* follows the POST at once
PollTickSleepsLast ==
  /\ pc = "poll"
  /\ \E lat \in Latencies(max_wait), r \in StatusResponses(reportable) :
       LET el == elapsed + (IF polls = 0 THEN 0 ELSE POLL_INTERVAL) + lat IN
       /\ elapsed' = el
       /\ wire' = [op |-> "GET_STATUS", arg |-> StatusUrl(ticket)]
       /\ reply' = r.json
       /\ polls' = polls + 1
       /\ IF ~r.ok THEN
            /\ Raising(HTTPError)
            /\ UNCHANGED <<status, last_status, same_count, change, streak,
                           result_url>>
          ELSE IF "status" \notin DOMAIN r.json THEN
            /\ Raising(KeyError)
            /\ UNCHANGED <<status, last_status, same_count, change, streak,
                           result_url>>
          ELSE
            LET st == r.json.status
                s  == PollStep(st, el, last_status, same_count, max_wait,
                               no_progress_limit)
            IN
            /\ status' = st
            /\ change' = Changed(change, polls + 1, status, st,
                                 no_progress_limit)
            /\ streak' = IF st = status THEN streak + 1 ELSE 1
            /\ last_status' = s.last
            /\ same_count' = s.cnt
            /\ IF s.kind = "return" THEN
                 /\ result_url' = DownloadUrl(ticket)
                 /\ pc' = "download"
                 /\ UNCHANGED <<exc, failed, outcome>>
               ELSE IF s.kind = "raise" THEN
                 /\ Raising(s.exc)
                 /\ UNCHANGED result_url
               ELSE
                 UNCHANGED <<pc, exc, failed, outcome, result_url>>
  /\ UNCHANGED <<cfgVars, crashVars, out, failures, run, all_pdbs, idx, ticket, issued,
                 submitted, logStart, paced>>

\* one iteration of the while loop of poll_until_ready
PollTick ==
  /\ pc = "poll"
  /\ \E lat \in Latencies(max_wait), r \in StatusResponses(reportable) :
       LET el == elapsed + POLL_INTERVAL + lat IN
       /\ elapsed' = el
       /\ wire' = [op |-> "GET_STATUS", arg |-> StatusUrl(ticket)]
       /\ reply' = r.json
       /\ polls' = polls + 1
       /\ IF ~r.ok THEN
            /\ Raising(HTTPError)
            /\ UNCHANGED <<status, last_status, same_count, change, streak,
                           result_url>>
          ELSE IF "status" \notin DOMAIN r.json THEN
            /\ Raising(KeyError)
            /\ UNCHANGED <<status, last_status, same_count, change, streak,
                           result_url>>
          ELSE
            LET st == r.json.status
                s  == PollStep(st, el, last_status, same_count, max_wait,
                               no_progress_limit)
            IN
            /\ status' = st
            /\ change' = Changed(change, polls + 1, status, st,
                                 no_progress_limit)
            /\ streak' = IF st = status THEN streak + 1 ELSE 1
            /\ last_status' = s.last
            /\ same_count' = s.cnt
            /\ IF s.kind = "return" THEN
                 /\ result_url' = DownloadUrl(ticket)
                 /\ pc' = "download"
                 /\ UNCHANGED <<exc, failed, outcome>>
               ELSE IF s.kind = "raise" THEN
                 /\ Raising(s.exc)
                 /\ UNCHANGED result_url
               ELSE
                 UNCHANGED <<pc, exc, failed, outcome, result_url>>
  /\ UNCHANGED <<cfgVars, crashVars, out, failures, run, all_pdbs, idx, ticket, issued,
                 submitted, logStart, paced>>

\* download_and_extract with os.makedirs before the GET
DownloadMakesDirFirst ==
  /\ pc = "download"
  /\ \E r \in DownloadResponses :
       /\ wire' = [op |-> "GET_RESULT", arg |-> result_url]
       /\ reply' = NoReply
       /\ IF ~r.ok THEN
            /\ Raising(HTTPError)
            /\ out' = [out EXCEPT ![result_folder].exists = TRUE]
          ELSE
            /\ out' = [out EXCEPT ![result_folder] = ExtractInto(@, r.content)]
            /\ IF ExtractRaises(r.content) THEN
                 Raising(TarError)
               ELSE
                 /\ pc' = "sleep"
                 /\ outcome' = [outcome EXCEPT ![pdb_path] = "extracted"]
                 /\ UNCHANGED <<exc, failed>>
  /\ PollFrameLeft
  /\ UNCHANGED <<cfgVars, crashVars, failures, run, all_pdbs, idx, ticket, result_url,
                 issued, submitted, logStart, paced>>

\* download_and_extract
Download ==
  /\ pc = "download"
  /\ \E r \in DownloadResponses :
       /\ wire' = [op |-> "GET_RESULT", arg |-> result_url]
       /\ reply' = NoReply
       /\ IF ~r.ok THEN
            /\ Raising(HTTPError)
            /\ UNCHANGED out
          ELSE
            /\ out' = [out EXCEPT ![result_folder] = ExtractInto(@, r.content)]
            /\ IF ExtractRaises(r.content) THEN
                 Raising(TarError)
               ELSE
                 /\ pc' = "sleep"
                 /\ outcome' = [outcome EXCEPT ![pdb_path] = "extracted"]
                 /\ UNCHANGED <<exc, failed>>
  /\ PollFrameLeft
  /\ UNCHANGED <<cfgVars, crashVars, failures, run, all_pdbs, idx, ticket, result_url,
                 issued, submitted, logStart, paced>>

\* time.sleep(10), the last line of the try body
Pace ==
  /\ pc = "sleep"
  /\ paced' = TRUE
  /\ pc' = "loop"
  /\ idx' = idx + 1
  /\ wire' = NoRequest
  /\ reply' = NoReply
  /\ FrameLeft
  /\ UNCHANGED <<cfgVars, crashVars, out, failures, run, all_pdbs, exc, issued,
                 submitted, failed, logStart, outcome>>

\* the except block followed by another attempt at the same path
ExceptRetries ==
  /\ pc = "except"
  /\ failures' = Append(failures, pdb_path)
  /\ exc' = NoExc
  /\ pc' = "submit"
  /\ wire' = NoRequest
  /\ reply' = NoReply
  /\ FrameLeft
  /\ UNCHANGED <<cfgVars, crashVars, out, run, all_pdbs, idx, issued,
                 submitted, failed, logStart, paced, outcome>>

\* the except block that only remembers the failure, to report it later
ExceptDefersLog ==
  /\ pc = "except"
  /\ exc' = NoExc
  /\ pc' = "loop"
  /\ idx' = idx + 1
  /\ wire' = NoRequest
  /\ reply' = NoReply
  /\ FrameLeft
  /\ UNCHANGED <<cfgVars, crashVars, out, failures, run, all_pdbs, issued,
                 submitted, failed, logStart, paced, outcome>>

\* the except block with the log opened in mode "w"
ExceptRewritesLog ==
  /\ pc = "except"
  /\ failures' = <<pdb_path>>
  /\ exc' = NoExc
  /\ pc' = "loop"
  /\ idx' = idx + 1
  /\ wire' = NoRequest
  /\ reply' = NoReply
  /\ FrameLeft
  /\ UNCHANGED <<cfgVars, crashVars, out, run, all_pdbs, issued, submitted,
                 failed, logStart, paced, outcome>>

\* the except block: the path is appended to foldseek_failures.txt
Except ==
  /\ pc = "except"
  /\ failures' = Append(failures, pdb_path)
  /\ exc' = NoExc
  /\ pc' = "loop"
  /\ idx' = idx + 1
  /\ wire' = NoRequest
  /\ reply' = NoReply
  /\ FrameLeft
  /\ UNCHANGED <<cfgVars, crashVars, out, run, all_pdbs, issued, submitted, failed,
                 logStart, paced, outcome>>

\* the for loop is exhausted: the script ends
Finish ==
  /\ pc = "loop"
  /\ idx > Len(all_pdbs)
  /\ pc' = "done"
  /\ wire' = NoRequest
  /\ reply' = NoReply
  /\ UNCHANGED <<cfgVars, crashVars, pollVars, out, failures, run, all_pdbs, idx, ticket,
                 result_url, exc, issued, submitted, failed, logStart, paced,
                 outcome>>

\* the script is started again on the same directories
Rerun ==
  /\ pc = "done"
  /\ run < MaxRuns
  /\ run' = run + 1
  /\ logStart' = Len(failures)
  /\ all_pdbs' = Sorted({ p \in query_dir : EndsWithPdb(p) })
  /\ idx' = 1
  /\ pc' = "loop"
  /\ wire' = NoRequest
  /\ reply' = NoReply
  /\ submitted' = <<>>
  /\ failed' = <<>>
  /\ paced' = FALSE
  /\ outcome' = [p \in query_dir |-> "pending"]
  /\ out0' = out
  /\ crashed' = Unbound
  /\ UNCHANGED <<max_wait, no_progress_limit, reportable, query_dir, pollVars,
                 out, failures, issued, ticket, result_url, exc, lost>>

\* the process is killed (SIGKILL, power loss, Ctrl-C: KeyboardInterrupt is
\* not an Exception) while poll_until_ready is waiting for the job; nothing
\* of the process survives but the files
Kill ==
  /\ pc = "poll"
  /\ pc' = "killed"
  /\ lost' = lost \cup {ticket}
  /\ crashed' = pdb_path
  /\ exc' = NoExc
  /\ wire' = NoRequest
  /\ reply' = NoReply
  /\ FrameLeft
  /\ UNCHANGED <<cfgVars, out, failures, run, all_pdbs, idx, issued,
                 submitted, failed, logStart, paced, outcome>>

\* a restart that takes up the polling of a ticket kept from the killed run
RestartResumes ==
  /\ pc = "killed"
  /\ run < MaxRuns
  /\ \E t \in lost :
       /\ ticket' = t
       /\ pc' = "poll"
  /\ run' = run + 1
  /\ logStart' = Len(failures)
  /\ all_pdbs' = Sorted({ p \in query_dir : EndsWithPdb(p) })
  /\ wire' = NoRequest
  /\ reply' = NoReply
  /\ submitted' = <<>>
  /\ failed' = <<>>
  /\ paced' = FALSE
  /\ outcome' = [p \in query_dir |-> "pending"]
  /\ out0' = out
  /\ UNCHANGED <<max_wait, no_progress_limit, reportable, query_dir, pollVars,
                 crashVars, out, failures, issued, idx, result_url, exc>>

\* the script is started again after it was killed
Restart ==
  /\ pc = "killed"
  /\ run < MaxRuns
  /\ run' = run + 1
  /\ logStart' = Len(failures)
  /\ all_pdbs' = Sorted({ p \in query_dir : EndsWithPdb(p) })
  /\ idx' = 1
  /\ pc' = "loop"
  /\ wire' = NoRequest
  /\ reply' = NoReply
  /\ submitted' = <<>>
  /\ failed' = <<>>
  /\ paced' = FALSE
  /\ outcome' = [p \in query_dir |-> "pending"]
  /\ out0' = out
  /\ UNCHANGED <<max_wait, no_progress_limit, reportable, query_dir, pollVars,
                 crashVars, out, failures, issued, ticket, result_url, exc>>

\* one run of the script
Next ==
  \/ Skip
  \/ Enter
  \/ Submit
  \/ PollTick
  \/ Download
  \/ Pace
  \/ Except
  \/ Finish

\* runs of the script, one after the other
NextRerun ==
  \/ Next
  \/ Rerun

\* runs of the script, each of which may be killed while it polls
NextCrash ==
  \/ Next
  \/ Kill
  \/ Restart

Spec == Init /\ [][Next]_vars

SpecRerun == InitRerun /\ [][NextRerun]_vars

SpecPoll == InitPoll /\ [][Next]_vars

SpecCrash == InitRerun /\ [][NextCrash]_vars

SpecNames == InitNames /\ [][Next]_vars

\* The process is single-threaded and every call it makes returns (the HTTP
\* calls answer, the sleeps end): a step that can be taken is taken.
\* Every step moves pc, idx or polls, so a step that changes `progress` is
\* any step at all.
progress == <<pc, idx, polls>>

SpecLive == Init /\ [][Next]_vars /\ WF_progress(Next)

SpecPollLive == InitPoll /\ [][Next]_vars /\ WF_progress(Next)

-----------------------------------------------------------------------------
(* Vocabulary of the properties.                                           *)

Range(seq) == { seq[i] : i \in 1..Len(seq) }

\* the lines this run has appended to the failure log
Appended == SubSeq(failures, logStart + 1, Len(failures))

\* the paths of the list with the given outcome, in the order of the list
WithOutcome(o) == SelectSeq(all_pdbs, LAMBDA p : outcome[p] = o)

\* the marker of path p was there when this run began
HadMarker(p) == MarkerExists(out0[Uniprot(p)])

HasMarker(p) == MarkerExists(out[Uniprot(p)])

\* the process is inside process_structure for p, past the marker check
InProcess(p) ==
  /\ pc \in {"submit", "poll", "download", "sleep", "except"}
  /\ pdb_path = p

-----------------------------------------------------------------------------
(* C1  Failure isolation.  No failure of an artifact ends the run: the     *)
(* process never dies on an exception, and when the run is over every      *)
(* artifact of the list has its own outcome (skipped, extracted or         *)
(* failed).  Whenever the main loop is between two artifacts, the lines    *)
(* the run has appended to the failure log are exactly the paths of the    *)
(* artifacts that failed, once each, in the order of processing.           *)

FailureIsolation ==
  /\ pc # "aborted"
  /\ pc \in {"loop", "done"} =>
       /\ Appended = failed
       /\ failed = WithOutcome("failed")
  /\ pc = "done" =>
       \A p \in Range(all_pdbs) :
         outcome[p] \in {"skipped", "extracted", "failed"}

\* three artifacts, the second failed at submission, the first and the
\* third have their output records and the log holds the second path alone
FailureIsolationWitness ==
  /\ pc = "done"
  /\ Len(all_pdbs) >= 3
  /\ outcome[all_pdbs[1]] = "extracted" /\ HasMarker(all_pdbs[1])
  /\ outcome[all_pdbs[2]] = "failed"
  /\ outcome[all_pdbs[3]] = "extracted" /\ HasMarker(all_pdbs[3])
  /\ failures = <<all_pdbs[2]>>
  \* all three were POSTed and the service accepted two jobs: the second
  \* failed at submission
  /\ submitted = all_pdbs
  /\ issued = 2
  /\ out[Uniprot(all_pdbs[2])] = AbsentDir

-----------------------------------------------------------------------------
(* C2  Idempotency.  When the main loop reaches an artifact whose aln.tsv  *)
(* exists, the step it takes makes no HTTP request (no POST, no status     *)
(* query, no download), accepts no job at the service, and leaves the loop *)
(* at the next artifact: in a second run nothing is submitted for an       *)
(* artifact whose marker is there.                                         *)

Idempotency ==
  [][ (pc = "loop" /\ idx <= Len(all_pdbs) /\ HasMarker(pdb_path)) =>
        /\ wire'.op = "none"
        /\ submitted' = submitted
        /\ issued' = issued
        /\ polls' = polls
        /\ pc' = "loop"
        /\ idx' = idx + 1 ]_vars

\* a second run is over, and it skipped an artifact and submitted nothing
\* for it
IdempotencyWitness ==
  /\ run = 2
  /\ pc = "done"
  /\ \E p \in Range(all_pdbs) :
       /\ outcome[p] = "skipped"
       /\ p \notin Range(submitted)

-----------------------------------------------------------------------------
(* C3  Skipping leaves the state untouched.  For every artifact whose      *)
(* marker was there when the run began: its result directory is as it was, *)
(* it has not been submitted, and the run has appended no line for it.     *)
(* The paths submitted are those of the other artifacts; when the run is   *)
(* over and all of those were extracted, the failure log is as it was when *)
(* the run began (empty, for a first run).                                 *)

SkipLeavesStateUntouched ==
  /\ \A p \in Range(all_pdbs) :
       HadMarker(p) =>
         /\ out[Uniprot(p)] = out0[Uniprot(p)]
         /\ p \notin Range(submitted)
         /\ p \notin Range(Appended)
  /\ pc = "done" =>
       /\ submitted = SelectSeq(all_pdbs, LAMBDA p : ~HadMarker(p))
       /\ (\A p \in Range(all_pdbs) : ~HadMarker(p) => outcome[p] = "extracted")
            => failures = SubSeq(failures, 1, logStart)

\* A.pdb without marker, B.pdb with it: the run is over, only A was
\* submitted, B was skipped, the log is empty
SkipLeavesStateUntouchedWitness ==
  /\ pc = "done"
  /\ ~HadMarker(PdbFile(1)) /\ outcome[PdbFile(1)] = "extracted"
  /\ HadMarker(PdbFile(2)) /\ outcome[PdbFile(2)] = "skipped"
  /\ out[Uniprot(PdbFile(2))] = DoneDir
  /\ submitted = <<PdbFile(1)>>
  /\ failures = <<>>

-----------------------------------------------------------------------------
(* Vocabulary of the polling properties.                                   *)

\* the latest step was a status query whose answer carried a status
StatusRead ==
  /\ wire.op = "GET_STATUS"
  /\ exc \notin {HTTPError, KeyError}

\* The poller has been fed exactly n statuses, all the same non-terminal
\* value, the n-th just now, with the deadline not exceeded.
FedIdentical(n) ==
  /\ StatusRead
  /\ polls = n
  /\ change = "none"
  /\ status \notin Terminal
  /\ elapsed <= max_wait

-----------------------------------------------------------------------------
(* C4  Stall detection, as claimed: once the poller has been fed N         *)
(* identical non-terminal statuses (N the stall limit) within the          *)
(* deadline, it has raised the "No progress" error.                        *)

StallByLimitPolls ==
  FedIdentical(no_progress_limit) => exc = NoProgress

(* C4  Stall detection, as the code has it: the first poll only records    *)
(* the status, so the "No progress" error is raised once the poller has    *)
(* been fed N + 1 identical non-terminal statuses within the deadline.     *)

StallByLimitPlusOnePolls ==
  FedIdentical(no_progress_limit + 1) => exc = NoProgress

\* the (N+1)-th identical status has just been read and the error raised
StallByLimitPlusOnePollsWitness ==
  /\ FedIdentical(no_progress_limit + 1)
  /\ status = "RUNNING"
  /\ exc = NoProgress
  /\ pc = "except"

-----------------------------------------------------------------------------
(* C5  No false stall.  When the status differed from the one of the poll  *)
(* before at some poll among the first N - 1, the "No progress" error is   *)
(* not raised during the first N polls.                                    *)

NoFalseStall ==
  (change = "early" /\ exc = NoProgress) => polls > no_progress_limit

\* N polls are done, the status changed early, the poller is still polling
NoFalseStallWitness ==
  /\ StatusRead
  /\ change = "early"
  /\ polls = no_progress_limit
  /\ pc = "poll"
  /\ exc = NoExc

-----------------------------------------------------------------------------
(* C6  Timeout precedence.  After a poll that read a non-terminal status   *)
(* with the elapsed time above max_wait, the error raised is the timeout,  *)
(* not "No progress", also when this poll would have brought the stall     *)
(* counter to the limit.                                                   *)

TimeoutPrecedence ==
  (StatusRead /\ status \notin Terminal /\ elapsed > max_wait)
    => exc = TimeoutError

\* the timeout was raised on the poll that would have been the stall
TimeoutPrecedenceWitness ==
  /\ StatusRead
  /\ exc = TimeoutError
  /\ elapsed > max_wait
  /\ status = last_status
  /\ same_count + 1 = no_progress_limit

-----------------------------------------------------------------------------
(* C7  Terminal statuses short-circuit.  Once COMPLETE has been read the   *)
(* poller has returned the download URL of its ticket, once ERROR has been *)
(* read it has raised the server error; in both cases the polling loop is  *)
(* left, so no further status query is made for the ticket.  On the first  *)
(* poll this is after exactly one status query.                            *)

TerminalShortCircuit ==
  /\ (StatusRead /\ status = "COMPLETE") =>
       /\ pc = "download"
       /\ result_url = DownloadUrl(ticket)
       /\ exc = NoExc
  /\ (StatusRead /\ status = "ERROR") =>
       /\ pc = "except"
       /\ exc = ServerError
  /\ status \in Terminal => pc # "poll"

\* COMPLETE on the very first poll: one status query, the URL is returned
TerminalShortCircuitWitness ==
  /\ StatusRead
  /\ polls = 1
  /\ status = "COMPLETE"
  /\ pc = "download"
  /\ result_url = DownloadUrl(ticket)

-----------------------------------------------------------------------------
(* C8  Outcome exclusivity.  When a run is over, for every artifact of the *)
(* list at most one of these holds: its marker file exists, the failure    *)
(* log holds its path, it is being processed.  Stated for every run of a   *)
(* sequence of runs on the same directories and the same log.              *)

Count(b) == IF b THEN 1 ELSE 0

OutcomeExclusivity ==
  pc = "done" =>
    \A p \in Range(all_pdbs) :
      Count(HasMarker(p)) + Count(p \in Range(failures)) + Count(InProcess(p))
        <= 1

-----------------------------------------------------------------------------
(* C9  No artifact is silently dropped.  When a run is over, every         *)
(* artifact of the list has its marker file or has its path in the failure *)
(* log.                                                                    *)

NoArtifactDropped ==
  pc = "done" =>
    \A p \in Range(all_pdbs) : HasMarker(p) \/ p \in Range(failures)

-----------------------------------------------------------------------------
(* C10  Pacing.  Whenever the process is about to POST an artifact and has *)
(* POSTed another one earlier in the run, the pacing sleep has run since   *)
(* that earlier POST.                                                      *)

PacedBetweenSubmissions ==
  (pc = "submit" /\ submitted # <<>>) => paced

-----------------------------------------------------------------------------
(* C11  The batch always completes.  With every call returning and the     *)
(* clock advancing, the run eventually ends and stays ended, and it ends   *)
(* with the main loop past the last artifact of the list and every         *)
(* artifact visited: skipped, extracted, or failed with its path appended  *)
(* to the failure log.                                                     *)

Visited(p) ==
  \/ outcome[p] = "skipped"
  \/ outcome[p] = "extracted"
  \/ outcome[p] = "failed" /\ p \in Range(Appended)

BatchCompletes ==
  <>[](/\ pc = "done"
       /\ idx = Len(all_pdbs) + 1
       /\ \A p \in Range(all_pdbs) : Visited(p))

\* the run is over with one artifact skipped, one extracted and one failed,
\* the failed one after a polling session that ran into the deadline
BatchCompletesWitness ==
  /\ pc = "done"
  /\ idx = Len(all_pdbs) + 1
  /\ \E p, q, r \in Range(all_pdbs) :
       /\ outcome[p] = "skipped"
       /\ outcome[q] = "extracted"
       /\ outcome[r] = "failed" /\ failures = <<r>>

-----------------------------------------------------------------------------
(* C12  No automatic retry within a run.  In one run no path is POSTed     *)
(* twice, whatever failed; the main loop never moves back; and an artifact *)
(* that failed lies behind the loop (or is in its except block), so it is  *)
(* not visited again in that run.                                          *)

\* the position of path p in the list
Index(p) == CHOOSE i \in 1..Len(all_pdbs) : all_pdbs[i] = p

NoDuplicates(seq) ==
  \A i, j \in 1..Len(seq) : i < j => seq[i] # seq[j]

NoRetryWithinRun ==
  /\ [](/\ NoDuplicates(submitted)
        /\ \A p \in Range(all_pdbs) :
             outcome[p] = "failed" =>
               \/ Index(p) < idx
               \/ Index(p) = idx /\ pc = "except")
  /\ [][idx' >= idx]_vars

\* the run is over, two artifacts failed, and each of the three paths was
\* POSTed exactly once
NoRetryWithinRunWitness ==
  /\ pc = "done"
  /\ submitted = all_pdbs
  /\ Len(failed) = 2
  /\ Len(failures) = 2

-----------------------------------------------------------------------------
(* C13  Failed artifacts are retried on re-run, as claimed: when the       *)
(* second run on the same directories is over, every path the first run    *)
(* wrote to the failure log has been submitted again by the second run.    *)

FailedAreRetriedOnRerun ==
  (run = 2 /\ pc = "done") =>
    \A i \in 1..logStart : failures[i] \in Range(submitted)

-----------------------------------------------------------------------------
(* C14  Strictly sequential processing.  Only the artifact the main loop   *)
(* is at can be in flight: every artifact before it has its final outcome  *)
(* (skipped, extracted, or failed with its line in the log), every         *)
(* artifact after it is untouched and has not been submitted.  The         *)
(* requests of one artifact come in the order POST, status queries,        *)
(* download: a POST follows no request of the same visit, a status query   *)
(* follows the POST or a status query, the download follows a status       *)
(* query, and result directories change only in the download step.         *)

StrictlySequential ==
  /\ [](\A i \in 1..Len(all_pdbs) :
          /\ i < idx => Visited(all_pdbs[i])
          /\ i > idx =>
               /\ outcome[all_pdbs[i]] = "pending"
               /\ all_pdbs[i] \notin Range(submitted)
               /\ out[Uniprot(all_pdbs[i])] = out0[Uniprot(all_pdbs[i])])
  /\ [][ /\ wire'.op = "POST" =>
              /\ wire.op = "none"
              /\ wire'.arg = pdb_path
         /\ wire'.op = "GET_STATUS" =>
              /\ wire.op \in {"POST", "GET_STATUS"}
              /\ idx' = idx
         /\ wire'.op = "GET_RESULT" =>
              /\ wire.op = "GET_STATUS"
              /\ idx' = idx
         /\ out' # out => wire'.op = "GET_RESULT" ]_vars

\* the third artifact is being polled after the first was extracted and the
\* second failed and was logged
StrictlySequentialWitness ==
  /\ pc = "poll"
  /\ idx = 3
  /\ polls >= 1
  /\ outcome[all_pdbs[1]] = "extracted"
  /\ outcome[all_pdbs[2]] = "failed"
  /\ failures = <<all_pdbs[2]>>
  /\ outcome[all_pdbs[3]] = "pending"

-----------------------------------------------------------------------------
(* C15  Malformed submission response.  A POST that was answered with      *)
(* success but with no job identifier under "ticket" or "id" (both absent  *)
(* or empty) raises the "No ticket returned" error: no status query and no *)
(* download is made, the result directories are as they were, and the next *)
(* step appends the path to the failure log and takes the main loop to the *)
(* next artifact.  Polling and download only happen with an identifier.    *)

MalformedSubmissionResponse ==
  /\ []((wire.op = "POST" /\ exc # HTTPError /\ ticket \in {None, ""}) =>
          /\ exc = ValueError
          /\ pc = "except"
          /\ polls = 0
          /\ out[result_folder] = out0[result_folder])
  /\ [](pc \in {"poll", "download"} => ticket \notin {None, ""})
  /\ [][ exc = ValueError =>
           /\ failures' = Append(failures, pdb_path)
           /\ wire'.op = "none"
           /\ out' = out
           /\ pc' = "loop"
           /\ idx' = idx + 1 ]_vars

\* the second artifact's POST was answered with empty strings under both
\* keys, after the first artifact was extracted
MalformedSubmissionResponseWitness ==
  /\ wire.op = "POST"
  /\ ticket = ""
  /\ exc = ValueError
  /\ pc = "except"
  /\ idx = 2
  /\ outcome[all_pdbs[1]] = "extracted"

-----------------------------------------------------------------------------
(* C16  Result locator discipline.  A download request is made only in the *)
(* step after the status query that read COMPLETE for the same ticket; its *)
(* URL is the download template followed by the ticket, which is the       *)
(* handle the service returned for this artifact's own POST (the latest    *)
(* job it accepted); and the step after a download is neither a download   *)
(* nor a status query, so there is one download per submission at most.    *)

ResultLocatorDiscipline ==
  [][ /\ wire'.op = "GET_RESULT" =>
           /\ wire = [op |-> "GET_STATUS", arg |-> StatusUrl(ticket)]
           /\ status = "COMPLETE"
           /\ ticket = Handle(issued)
           /\ pdb_path = submitted[Len(submitted)]
           /\ wire'.arg = DownloadUrl(ticket)
      /\ wire.op = "GET_RESULT" => wire'.op = "none" ]_vars

\* the second artifact's archive has been requested with the second handle
ResultLocatorDisciplineWitness ==
  /\ wire = [op |-> "GET_RESULT", arg |-> DownloadUrl(Handle(2))]
  /\ idx = 2
  /\ ticket = Handle(2)
  /\ outcome[all_pdbs[1]] = "extracted"

-----------------------------------------------------------------------------
(* C17  Append-only failure log.  Every step, over any number of runs,     *)
(* leaves the old content of the log as a prefix of the new one; the       *)
(* except block appends exactly the path at hand; and outside the except   *)
(* block the lines this run has appended are the failures it has had, so   *)
(* each failure is written before the next artifact is started.            *)

IsPrefix(a, b) == Len(a) <= Len(b) /\ SubSeq(b, 1, Len(a)) = a

AppendOnlyLog ==
  /\ [][ /\ IsPrefix(failures, failures')
         /\ pc = "except" => failures' = Append(failures, pdb_path) ]_vars
  /\ [](pc # "except" => Appended = failed)

\* the second run has appended a line after the line of the first run and
\* is about to submit its next artifact
AppendOnlyLogWitness ==
  /\ run = 2
  /\ logStart = 1
  /\ Len(failures) = 2
  /\ pc = "submit"
  /\ idx = 2

-----------------------------------------------------------------------------
(* C18  Crash during polling.  When the process has been killed while it   *)
(* polled, the artifact has no marker, its result directory is as it was   *)
(* and the run has appended no line for it.  In the run started after the  *)
(* kill the artifact is not skipped and, once the main loop is past it,    *)
(* has been POSTed; the ticket in hand is never one that a killed run      *)
(* held, and no status query or download is made for such a ticket.        *)

CrashDuringPolling ==
  /\ pc = "killed" =>
       /\ ~HasMarker(crashed)
       /\ out[Uniprot(crashed)] = out0[Uniprot(crashed)]
       /\ crashed \notin Range(Appended)
  /\ (pc # "killed" /\ crashed # Unbound) =>
       /\ outcome[crashed] # "skipped"
       /\ idx > Index(crashed) => crashed \in Range(submitted)
  /\ ticket \notin lost
  /\ \A t \in lost : wire.arg \notin {StatusUrl(t), DownloadUrl(t)}

\* the run after the kill is polling the same artifact under a new handle
CrashDuringPollingWitness ==
  /\ run = 2
  /\ pc = "poll"
  /\ polls >= 1
  /\ pdb_path = crashed
  /\ lost = {Handle(1)}
  /\ ticket = Handle(2)
  /\ wire = [op |-> "GET_STATUS", arg |-> StatusUrl(Handle(2))]

-----------------------------------------------------------------------------
(* C19  Bounded polling.  With each poll adding at least the poll interval *)
(* to the elapsed time, a polling session is left after finitely many      *)
(* polls: while it lasts, polls * POLL_INTERVAL <= max_wait; it always     *)
(* ends; and when it ends on a status it has read, the outcome is COMPLETE *)
(* (the URL is returned), ERROR, the timeout or the stall.                 *)

BoundedPolling ==
  /\ [](pc = "poll" => polls * POLL_INTERVAL <= max_wait)
  /\ [](pc = "poll" => <>(pc # "poll"))
  /\ []((StatusRead /\ pc # "poll") =>
          \/ status = "COMPLETE" /\ pc = "download"
          \/ status = "ERROR" /\ exc = ServerError
          \/ exc = TimeoutError
          \/ exc = NoProgress)

\* a status that never stayed the same for long kept the session going
\* until the deadline, with no latency at all
BoundedPollingWitness ==
  /\ exc = TimeoutError
  /\ polls = (max_wait \div POLL_INTERVAL) + 1
  /\ elapsed = polls * POLL_INTERVAL
  /\ same_count < no_progress_limit - 1

-----------------------------------------------------------------------------
(* C20  Submission failure is terminal for the attempt.  After a POST that *)
(* was answered with an HTTP error the process is in its except block: no  *)
(* ticket, no status query, the artifact's result directory as it was, the *)
(* path POSTed once.  The next step appends the path to the failure log,   *)
(* makes no request, changes no directory and takes the main loop to the   *)
(* next artifact.  No path has two lines from one run.                     *)

SubmissionFailureTerminal ==
  /\ []((wire.op = "POST" /\ exc = HTTPError) =>
          /\ pc = "except"
          /\ ticket = None
          /\ polls = 0
          /\ out[result_folder] = out0[result_folder]
          /\ pdb_path \notin Range(Appended))
  /\ [](NoDuplicates(Appended) /\ NoDuplicates(submitted))
  /\ [][ (wire.op = "POST" /\ exc = HTTPError) =>
           /\ failures' = Append(failures, pdb_path)
           /\ wire'.op = "none"
           /\ out' = out
           /\ pc' = "loop"
           /\ idx' = idx + 1 ]_vars

\* the second artifact's POST was refused, after the first was extracted
SubmissionFailureTerminalWitness ==
  /\ wire.op = "POST"
  /\ exc = HTTPError
  /\ pc = "except"
  /\ idx = 2
  /\ outcome[all_pdbs[1]] = "extracted"
  /\ out[Uniprot(all_pdbs[2])] = AbsentDir

-----------------------------------------------------------------------------
(* C21  Deterministic order.  The list the main loop walks holds exactly   *)
(* the files of the query directory that end in .pdb, in strictly          *)
(* ascending order of their names, so each of them once.  The loop moves   *)
(* forward one artifact at a time: the artifacts with an outcome are those *)
(* behind it (and the one it is at), and the paths POSTed so far are a     *)
(* subsequence of the list.                                                *)

DeterministicOrder ==
  /\ [](/\ Range(all_pdbs) = { p \in query_dir : EndsWithPdb(p) }
        /\ \A i, j \in 1..Len(all_pdbs) :
             i < j => StrLess(all_pdbs[i], all_pdbs[j])
        /\ submitted = SelectSeq(all_pdbs, LAMBDA p : p \in Range(submitted))
        /\ \A i \in 1..Len(all_pdbs) :
             /\ i < idx => outcome[all_pdbs[i]] # "pending"
             /\ i > idx => outcome[all_pdbs[i]] = "pending")
  /\ [][idx' \in {idx, idx + 1}]_vars

\* the run is over; of A.pdb, A.pdb.pdb, B.pdb the first and the third were
\* POSTed, in that order
DeterministicOrderWitness ==
  /\ pc = "done"
  /\ all_pdbs = << <<"A", ".pdb">>, <<"A", ".pdb", ".pdb">>, <<"B", ".pdb">> >>
  /\ submitted = <<all_pdbs[1], all_pdbs[3]>>

-----------------------------------------------------------------------------
(* Vocabulary of a polling tick.                                           *)

\* the step is a tick of the poller that reads a status
TickReads ==
  /\ pc = "poll"
  /\ wire'.op = "GET_STATUS"
  /\ exc' \notin {HTTPError, KeyError}

-----------------------------------------------------------------------------
(* C22  Stall counter rule.  On a tick that reads a non-terminal status    *)
(* within the deadline: when the status equals last_status the counter     *)
(* goes up by one, last_status stays, and "No progress" is raised exactly  *)
(* when the counter has reached the limit; when it differs the counter     *)
(* becomes 0, last_status becomes the status, and nothing is raised.  So a *)
(* tick whose status differs from the one of the tick before never raises  *)
(* "No progress", and neither does the first tick: a sequence in which     *)
(* every status differs from its predecessor never stalls.                 *)

StallCounterRule ==
  /\ [][ (TickReads /\ status' \notin Terminal /\ elapsed' <= max_wait) =>
           IF status' = last_status
           THEN /\ same_count' = same_count + 1
                /\ last_status' = last_status
                /\ (exc' = NoProgress) <=> (same_count' = no_progress_limit)
                /\ (exc' = NoExc /\ pc' = "poll") <=>
                     (same_count' < no_progress_limit)
           ELSE /\ same_count' = 0
                /\ last_status' = status'
                /\ exc' = NoExc
                /\ pc' = "poll" ]_vars
  /\ [][ (TickReads /\ (polls = 0 \/ status' # status)) =>
           exc' # NoProgress ]_vars

\* two statuses have taken turns for twice the limit of polls, and the
\* poller is still polling with its counter at 0
StallCounterRuleWitness ==
  /\ pc = "poll"
  /\ polls = 2 * no_progress_limit
  /\ change = "early"
  /\ streak = 1
  /\ same_count = 0
  /\ status = "RUNNING"
  /\ last_status = "RUNNING"

-----------------------------------------------------------------------------
(* C23  Download failure leaves no output.  After a download request that  *)
(* was answered with an HTTP error the process is in its except block and  *)
(* the artifact's result directory is as it was when the run began (not    *)
(* created, not changed); the next step appends the path to the failure    *)
(* log.  A directory is created or written only by a download step whose   *)
(* GET succeeded.                                                          *)

DownloadFailureLeavesNoOutput ==
  /\ []((wire.op = "GET_RESULT" /\ exc = HTTPError) =>
          /\ pc = "except"
          /\ out[result_folder] = out0[result_folder])
  /\ [][ /\ (pc = "download" /\ exc' = HTTPError) => out' = out
         /\ out' # out =>
              /\ pc = "download"
              /\ exc' \in {NoExc, TarError}
              /\ out'[result_folder].exists
         /\ (wire.op = "GET_RESULT" /\ exc = HTTPError) =>
              /\ failures' = Append(failures, pdb_path)
              /\ out' = out
              /\ pc' = "loop"
              /\ idx' = idx + 1 ]_vars

\* the second artifact's download was refused and it has no directory
DownloadFailureLeavesNoOutputWitness ==
  /\ wire.op = "GET_RESULT"
  /\ exc = HTTPError
  /\ pc = "except"
  /\ idx = 2
  /\ out[result_folder] = AbsentDir
  /\ outcome[all_pdbs[1]] = "extracted"

-----------------------------------------------------------------------------
(* C24  Every status query is preceded by a poll-interval sleep.  Each     *)
(* status query comes at least POLL_INTERVAL after the step before it (the *)
(* POST, or the status query before), so after n queries for a ticket at   *)
(* least n * POLL_INTERVAL have passed since polling began.                *)

SleepBeforeEveryQuery ==
  /\ [][ wire'.op = "GET_STATUS" =>
           /\ wire.op \in {"POST", "GET_STATUS"}
           /\ elapsed' >= elapsed + POLL_INTERVAL ]_vars
  /\ [](wire.op = "GET_STATUS" =>
          /\ polls >= 1
          /\ elapsed >= polls * POLL_INTERVAL)

\* two status queries were made, each right after its sleep
SleepBeforeEveryQueryWitness ==
  /\ wire.op = "GET_STATUS"
  /\ polls = 2
  /\ elapsed = 2 * POLL_INTERVAL
  /\ pc = "poll"

-----------------------------------------------------------------------------
(* C25  Terminal status beats the deadline.  After a tick that read        *)
(* COMPLETE with the elapsed time above max_wait the URL has been returned *)
(* and nothing raised; after one that read ERROR the server error has been *)
(* raised; the timeout is raised only by a tick that read a non-terminal   *)
(* status with the elapsed time above max_wait.                            *)

TerminalBeatsDeadline ==
  /\ (StatusRead /\ elapsed > max_wait /\ status = "COMPLETE") =>
       /\ pc = "download"
       /\ exc = NoExc
       /\ result_url = DownloadUrl(ticket)
  /\ (StatusRead /\ elapsed > max_wait /\ status = "ERROR") =>
       /\ pc = "except"
       /\ exc = ServerError
  /\ exc = TimeoutError =>
       /\ StatusRead
       /\ status \notin Terminal
       /\ elapsed > max_wait

\* COMPLETE was read after the deadline, and the URL was returned
TerminalBeatsDeadlineWitness ==
  /\ StatusRead
  /\ elapsed > max_wait
  /\ status = "COMPLETE"
  /\ pc = "download"
  /\ result_url = DownloadUrl(ticket)

-----------------------------------------------------------------------------
(* C26  Distinct artifacts have distinct output records.  Any two          *)
(* different paths of the list have different unit identifiers, and an     *)
(* artifact is skipped only when its marker was there when the run began:  *)
(* never because of a marker this run produced for another artifact.       *)

DistinctOutputRecords ==
  /\ \A p \in Range(all_pdbs) : outcome[p] = "skipped" => HadMarker(p)
  /\ \A p, q \in Range(all_pdbs) : p # q => Uniprot(p) # Uniprot(q)

-----------------------------------------------------------------------------
(* C27  Stall counter invariant, as claimed.  While the poller polls, the  *)
(* counter is at least 0 and below the limit; the poll that records a      *)
(* status does not count, so after a poll the counter is one less than the *)
(* number of latest polls in a row with the same status, and "No progress" *)
(* is raised by the (limit + 1)-th poll in a row with the same status.     *)

StallOnLimitPlusOneInARow ==
  /\ pc = "poll" => same_count \in 0..(no_progress_limit - 1)
  /\ (pc = "poll" /\ polls >= 1) => same_count = streak - 1
  /\ exc = NoProgress => streak = no_progress_limit + 1

\* the polls that read the same status were the first ones, and the status
\* is the initial value of last_status: no poll recorded it
FromInitial == status = "" /\ streak = polls

Recording == IF FromInitial THEN 0 ELSE 1

(* C27  Stall counter invariant, as the code has it.  While the poller     *)
(* polls, the counter is at least 0 and below the limit, and after a poll  *)
(* it is the number of latest polls in a row with the same status, less    *)
(* the one that recorded the status; "No progress" is raised by the        *)
(* (limit + 1)-th poll in a row with the same status.  When the status is  *)
(* the empty string from the first poll on, it equals the initial          *)
(* last_status: no poll records it, every poll counts, and the error is    *)
(* raised by the limit-th poll.                                            *)

StallCounterInvariant ==
  /\ pc = "poll" => same_count \in 0..(no_progress_limit - 1)
  /\ (pc = "poll" /\ polls >= 1) => same_count = streak - Recording
  /\ exc = NoProgress => streak = no_progress_limit + Recording

\* after one poll of another status, the same status was read limit + 1
\* times in a row, and the last of these polls raised the error
StallCounterInvariantWitness ==
  /\ exc = NoProgress
  /\ status = "RUNNING"
  /\ streak = no_progress_limit + 1
  /\ polls = streak + 1
  /\ same_count = no_progress_limit

-----------------------------------------------------------------------------
(* C28  A failed status query is terminal.  After a status query that was  *)
(* answered with an HTTP error or without a "status" field the process is  *)
(* in its except block, with no line for the path yet; the next step       *)
(* appends the path to the failure log, makes no request and takes the     *)
(* main loop to the next artifact.  No path has two lines from one run.    *)

FailedStatusQueryTerminal ==
  /\ []((wire.op = "GET_STATUS" /\ "status" \notin DOMAIN reply) =>
          /\ pc = "except"
          /\ exc \in {HTTPError, KeyError}
          /\ result_url = Unbound
          /\ pdb_path \notin Range(Appended))
  /\ [](NoDuplicates(Appended))
  /\ [][ (wire.op = "GET_STATUS" /\ "status" \notin DOMAIN reply) =>
           /\ failures' = Append(failures, pdb_path)
           /\ wire'.op = "none"
           /\ out' = out
           /\ pc' = "loop"
           /\ idx' = idx + 1 ]_vars

\* the second status query for the second artifact came back without a
\* "status" field
FailedStatusQueryTerminalWitness ==
  /\ wire.op = "GET_STATUS"
  /\ exc = KeyError
  /\ pc = "except"
  /\ polls = 2
  /\ idx = 2
  /\ outcome[all_pdbs[1]] = "extracted"

-----------------------------------------------------------------------------
(* C29  The shipped configurations never time out on a constant status.    *)
(* With every tick taking exactly POLL_INTERVAL: as long as every poll has *)
(* read the same status, no timeout is raised; the poller is left by the   *)
(* (limit + 1)-th such poll at the latest; and when it is left on a        *)
(* non-terminal status, it is by "No progress".                            *)

ExactTicks == elapsed = polls * POLL_INTERVAL

ConstantStatusNeverTimesOut ==
  /\ (change = "none" /\ ExactTicks) => exc # TimeoutError
  /\ (change = "none" /\ ExactTicks /\ pc = "poll") =>
       polls <= no_progress_limit
  /\ (change = "none" /\ ExactTicks /\ StatusRead /\ status \notin Terminal
        /\ pc # "poll") => exc = NoProgress

\* the script with the 600 s deadline: RUNNING on every poll, stalled at the
\* thirteenth, 65 s after polling began
ConstantStatusNeverTimesOutWitness ==
  /\ max_wait = P2_MAX_WAIT
  /\ change = "none"
  /\ ExactTicks
  /\ status = "RUNNING"
  /\ polls = no_progress_limit + 1
  /\ exc = NoProgress

-----------------------------------------------------------------------------
(* C30  Job-identifier selection.  After a POST that was answered with     *)
(* success: when the body has a non-empty value under "ticket", the ticket *)
(* in hand is that value; otherwise, when it has a non-empty value under   *)
(* "id", the ticket is that value; in both cases polling begins.  When     *)
(* both are absent or empty, "No ticket returned" is raised.  Status       *)
(* queries and the download are made for the ticket in hand.               *)

Present(v) == v \notin {None, ""}

JobIdentifierSelection ==
  /\ (wire.op = "POST" /\ exc # HTTPError) =>
       IF Present(Get(reply, "ticket")) THEN
         /\ ticket = Get(reply, "ticket")
         /\ pc = "poll"
         /\ exc = NoExc
       ELSE IF Present(Get(reply, "id")) THEN
         /\ ticket = Get(reply, "id")
         /\ pc = "poll"
         /\ exc = NoExc
       ELSE
         /\ exc = ValueError
         /\ pc = "except"
  /\ wire.op = "GET_STATUS" => wire.arg = StatusUrl(ticket)
  /\ wire.op = "GET_RESULT" => wire.arg = DownloadUrl(ticket)

\* a body with an empty "ticket" and a job number under "id" was accepted
\* with the value of "id"
JobIdentifierSelectionWitness ==
  /\ wire.op = "POST"
  /\ reply = [ticket |-> "", id |-> Handle(1)]
  /\ ticket = Handle(1)
  /\ pc = "poll"

====
